---------------------------- MODULE Spec2Model ----------------------------
(***************************************************************************)
(* Model of elasticsearch_connector.py: the ElasticsearchConnector class,  *)
(* its REST dispatcher (_make_rest_call), the three action handlers and    *)
(* handle_action.                                                          *)
(*                                                                         *)
(* Python values are represented as follows.                               *)
(*   - A text (a query string, a response body, a request body) is a       *)
(*     sequence of tokens <<kind, text>>: punctuation "p", whitespace      *)
(*     "ws", a string literal "str", a number "num", one of the literals   *)
(*     true/false/null "lit", and "bad" for text that is no JSON token.    *)
(*   - A decoded JSON value (what json.loads and r.json() return) is a     *)
(*     tagged tuple: <<"null">> (Python None), <<"bool", b>>, <<"num", n>>,*)
(*     <<"str", s>>, <<"arr", <<v1, ...>>>>, <<"obj", <<<<k1, v1>>, ...>>>>*)
(*     (a dict in iteration order, keys unique).                           *)
(*   - A dict of strings (HTTP headers, query parameters) is a function    *)
(*     from key to value; the empty dict is <<>>.                          *)
(*   - An exception is the name of its class; NoExc means none was raised. *)
(***************************************************************************)
EXTENDS Integers, Sequences, FiniteSets, TLC

\* The fields of the records below, numbered in the order in which every
\* record lists them.  TLC keeps the fields of a record in the order of the
\* first occurrence of their names in the module: with this order fixed here,
\* every record is built in its normal form.
FieldOrder ==
    [ ok |-> 1, exc |-> 2, val |-> 3, pos |-> 4, func |-> 5, given |-> 6,
      dict |-> 7, kind |-> 8, parameters |-> 9, status |-> 10, detail |-> 11,
      cause |-> 12, ret_val |-> 13, response |-> 14, ret |-> 15,
      action_result |-> 16, default_headers |-> 17, sent |-> 18,
      progress |-> 19, added |-> 20, connector_result |-> 21, call |-> 22,
      action |-> 23, param |-> 24, method |-> 25, headers_arg |-> 26,
      verb |-> 27, url |-> 28, username |-> 29, password |-> 30, auth |-> 31,
      message |-> 32, data |-> 33, summary |-> 34, debug_data |-> 35,
      has_debug |-> 36, nset |-> 37, headers |-> 38, verify |-> 39,
      params |-> 40, net |-> 41, index |-> 42, type |-> 43, query |-> 44,
      routing |-> 45, raises |-> 46, status_code |-> 47, text |-> 48,
      _host |-> 49, _base_url |-> 50, _headers |-> 51, _username |-> 52,
      _password |-> 53, _auth_method |-> 54, _key |-> 55 ]

\* ------------------------------------------------------------------------
\* Python values
\* ------------------------------------------------------------------------

None == <<"null">>

NoExc == "NoExc"

PyBool(b) == <<"bool", b>>

PyNum(n) == <<"num", n>>

PyStr(s) == <<"str", s>>

PyList(xs) == <<"arr", xs>>

PyDict(kvs) == <<"obj", kvs>>

EmptyDict == <<>>

\* Python truthiness of a decoded value: None, False, 0, "", [] and {} are falsy.
Truthy(v) ==
    CASE v[1] = "null" -> FALSE
      [] v[1] = "bool" -> v[2]
      [] v[1] = "num"  -> v[2] # 0
      [] v[1] = "str"  -> v[2] # ""
      [] v[1] = "arr"  -> Len(v[2]) > 0
      [] v[1] = "obj"  -> Len(v[2]) > 0
      [] OTHER         -> TRUE

\* dict.update on dicts of strings: other's entries win.
DictUpdate(d, other) ==
    [k \in (DOMAIN d) \cup (DOMAIN other) |-> IF k \in DOMAIN other THEN other[k] ELSE d[k]]

\* Position of key k in the item sequence of a dict value, 0 when absent.
KeyIndex(kvs, k) ==
    IF \E i \in 1..Len(kvs) : kvs[i][1] = k
    THEN CHOOSE i \in 1..Len(kvs) : kvs[i][1] = k
    ELSE 0

\* d[k] = v on the item sequence of a dict value.
DictPut(kvs, k, v) ==
    IF KeyIndex(kvs, k) = 0 THEN Append(kvs, <<k, v>>)
    ELSE [kvs EXCEPT ![KeyIndex(kvs, k)] = <<k, v>>]

\* d.keys() of a dict value, in iteration order.
DictKeys(kvs) == [i \in 1..Len(kvs) |-> kvs[i][1]]

\* ------------------------------------------------------------------------
\* json.loads / json.dumps
\* ------------------------------------------------------------------------

IsP(t, c) == t[1] = "p" /\ t[2] = c

LBRACE == <<"p", "{">>

RBRACE == <<"p", "}">>

LBRACK == <<"p", "[">>

RBRACK == <<"p", "]">>

COMMA == <<"p", ",">>

COLON == <<"p", ":">>

WS == <<"ws", " ">>

S(s) == <<"str", s>>

N(n) == <<"num", n>>

L(w) == <<"lit", w>>

ParseFail == [ok |-> FALSE, val |-> None, pos |-> 0]

ParseOk(v, p) == [ok |-> TRUE, val |-> v, pos |-> p]

RECURSIVE SkipWs(_, _)
SkipWs(t, i) ==
    IF i <= Len(t) /\ t[i][1] = "ws" THEN SkipWs(t, i + 1) ELSE i

RECURSIVE ParseValue(_, _)
RECURSIVE ParseElements(_, _, _)
RECURSIVE ParseMembers(_, _, _)

\* The decoder's value rule: a scalar token, an array or an object.
ParseValue(t, i0) ==
    LET i == SkipWs(t, i0) IN
    IF i > Len(t) THEN ParseFail
    ELSE CASE t[i][1] = "num" -> ParseOk(PyNum(t[i][2]), i + 1)
           [] t[i][1] = "str" -> ParseOk(PyStr(t[i][2]), i + 1)
           [] t[i][1] = "lit" ->
                (CASE t[i][2] = "true"  -> ParseOk(PyBool(TRUE), i + 1)
                   [] t[i][2] = "false" -> ParseOk(PyBool(FALSE), i + 1)
                   [] t[i][2] = "null"  -> ParseOk(None, i + 1)
                   [] OTHER             -> ParseFail)
           [] IsP(t[i], "[") ->
                (LET j == SkipWs(t, i + 1) IN
                 IF j <= Len(t) /\ IsP(t[j], "]") THEN ParseOk(PyList(<<>>), j + 1)
                 ELSE ParseElements(t, j, <<>>))
           [] IsP(t[i], "{") ->
                (LET j == SkipWs(t, i + 1) IN
                 IF j <= Len(t) /\ IsP(t[j], "}") THEN ParseOk(PyDict(<<>>), j + 1)
                 ELSE ParseMembers(t, j, <<>>))
           [] OTHER -> ParseFail

\* value ("," value)* "]"
ParseElements(t, i, acc) ==
    LET r == ParseValue(t, i) IN
    IF ~r.ok THEN ParseFail
    ELSE LET j == SkipWs(t, r.pos) IN
         IF j > Len(t) THEN ParseFail
         ELSE IF IsP(t[j], ",") THEN ParseElements(t, j + 1, Append(acc, r.val))
         ELSE IF IsP(t[j], "]") THEN ParseOk(PyList(Append(acc, r.val)), j + 1)
         ELSE ParseFail

\* string ":" value ("," string ":" value)* "}"; a repeated key keeps its last value.
ParseMembers(t, i0, acc) ==
    LET i == SkipWs(t, i0) IN
    IF i > Len(t) \/ t[i][1] # "str" THEN ParseFail
    ELSE LET c == SkipWs(t, i + 1) IN
         IF c > Len(t) \/ ~IsP(t[c], ":") THEN ParseFail
         ELSE LET r == ParseValue(t, c + 1) IN
              IF ~r.ok THEN ParseFail
              ELSE LET j == SkipWs(t, r.pos) IN
                   IF j > Len(t) THEN ParseFail
                   ELSE IF IsP(t[j], ",")
                        THEN ParseMembers(t, j + 1, DictPut(acc, t[i][2], r.val))
                   ELSE IF IsP(t[j], "}")
                        THEN ParseOk(PyDict(DictPut(acc, t[i][2], r.val)), j + 1)
                   ELSE ParseFail

\* json.loads(text): the decoded value, or ValueError when the text is not one
\* JSON document.
json_loads(text) ==
    LET r == ParseValue(text, 1) IN
    IF r.ok /\ SkipWs(text, r.pos) > Len(text)
    THEN [exc |-> NoExc, val |-> r.val]
    ELSE [exc |-> "ValueError", val |-> None]

RECURSIVE json_dumps(_)
RECURSIVE DumpElements(_, _)
RECURSIVE DumpMembers(_, _)

\* json.dumps(value) with the default separators (", " and ": ").
json_dumps(v) ==
    CASE v[1] = "null" -> <<L("null")>>
      [] v[1] = "bool" -> <<L(IF v[2] THEN "true" ELSE "false")>>
      [] v[1] = "num"  -> <<N(v[2])>>
      [] v[1] = "str"  -> <<S(v[2])>>
      [] v[1] = "arr"  -> <<LBRACK>> \o DumpElements(v[2], 1) \o <<RBRACK>>
      [] v[1] = "obj"  -> <<LBRACE>> \o DumpMembers(v[2], 1) \o <<RBRACE>>

DumpElements(xs, i) ==
    IF i > Len(xs) THEN <<>>
    ELSE (IF i > 1 THEN <<COMMA, WS>> ELSE <<>>) \o json_dumps(xs[i]) \o DumpElements(xs, i + 1)

DumpMembers(kvs, i) ==
    IF i > Len(kvs) THEN <<>>
    ELSE (IF i > 1 THEN <<COMMA, WS>> ELSE <<>>)
         \o <<S(kvs[i][1]), COLON, WS>> \o json_dumps(kvs[i][2]) \o DumpMembers(kvs, i + 1)

\* text.replace('{', w).replace('}', w) with w = ' ' (a whitespace token, lines 121)
\* or w = '' (the braces dropped, line 137).
ReplaceBraces(text, keep) ==
    LET Kept == SelectSeq(text, LAMBDA t : ~(IsP(t, "{") \/ IsP(t, "}")))
    IN IF keep
       THEN [i \in 1..Len(text) |-> IF IsP(text[i], "{") \/ IsP(text[i], "}") THEN WS ELSE text[i]]
       ELSE Kept

\* ------------------------------------------------------------------------
\* The phantom platform's status values and the ActionResult container
\* ------------------------------------------------------------------------

APP_SUCCESS == "APP_SUCCESS"

APP_ERROR == "APP_ERROR"

is_fail(ret_val) == ret_val = APP_ERROR

\* A status message: the template used (kind) and what was formatted into it.
Msg(kind, status, detail, cause) ==
    [kind |-> kind, status |-> status, detail |-> detail, cause |-> cause]

NoMessage == Msg("None", 0, <<>>, "")

\* ActionResult(param) / ActionResult(): parameters is <<param>> or <<>>.  nset
\* counts the set_status calls made on the object; has_debug says whether the
\* platform's ActionResult has add_debug_data.
ActionResult(parameters, has_debug) ==
    [parameters |-> parameters, status |-> "unset", message |-> NoMessage,
     data |-> <<>>, summary |-> <<>>, debug_data |-> <<>>,
     has_debug |-> has_debug, nset |-> 0]

NoActionResult == ActionResult(<<>>, FALSE)

set_status(ar, status, message) ==
    [ar EXCEPT !.status = status, !.message = message, !.nset = @ + 1]

add_data(ar, item) == [ar EXCEPT !.data = Append(@, item)]

update_summary(ar, key, value) == [ar EXCEPT !.summary = DictPut(@, key, value)]

add_debug_data(ar, key, value) == [ar EXCEPT !.debug_data = Append(@, <<key, value>>)]

\* The connector's own result (BaseConnector.set_status, append_to_message).
NoConnectorResult == [status |-> "unset", message |-> <<>>]

\* ------------------------------------------------------------------------
\* ElasticsearchConnector
\* ------------------------------------------------------------------------

ACTION_ID_RUN_QUERY == "run_query"

ACTION_ID_GET_CONFIG == "get_config"

ACTION_ID_TEST_ASSET_CONNECTIVITY == "test_asset_connectivity"

\* __init__: every member None; _password is first assigned by initialize.
Connector0 ==
    [_host |-> None, _base_url |-> None, _headers |-> None, _username |-> None,
     _auth_method |-> None, _key |-> None]

\* str.find('//') on a sequence of characters: 0-based index, -1 when absent.
find_slashes(s) ==
    LET Hits == {i \in 1..(Len(s) - 1) : s[i] = "/" /\ s[i + 1] = "/"}
    IN IF Hits = {} THEN -1
       ELSE (CHOOSE i \in Hits : \A j \in Hits : i <= j) - 1

\* s[k:] for a 0-based k >= 0.
slice_from(s, k) == SubSeq(s, k + 1, Len(s))

AcceptJson == [Accept |-> "application/json"]

ContentTypeJson == ("Content-Type" :> "application/json")

\* The _auth_method member after initialize: set when both credentials are
\* truthy, otherwise left as it was.
auth_method_after(old, username, password) ==
    IF Truthy(username) /\ Truthy(password) THEN PyBool(TRUE) ELSE old

initialize(self, config) ==
    LET base_url == IF Len(config.url) > 0 /\ config.url[Len(config.url)] = "/"
                    THEN SubSeq(config.url, 1, Len(config.url) - 1)
                    ELSE config.url
    IN [_host |-> slice_from(base_url, find_slashes(base_url) + 2),
        _base_url |-> base_url,
        _headers |-> AcceptJson,
        _username |-> config.username,
        _password |-> config.password,
        _auth_method |-> auth_method_after(self._auth_method, config.username, config.password),
        _key |-> self._key]

\* The attributes of the requests module that are HTTP verb functions.
RequestsVerbs == {"get", "post", "put", "delete", "head", "patch", "options"}

\* getattr(requests, method), called without a default.
getattr_requests(method) ==
    IF method \in RequestsVerbs THEN [exc |-> NoExc, func |-> method]
    ELSE [exc |-> "AttributeError", func |-> ""]

\* The headers argument: the caller's dict, or the function's default dict
\* (one object, created when the function is defined).
DefaultArg == [given |-> FALSE, dict |-> EmptyDict]

GivenArg(d) == [given |-> TRUE, dict |-> d]

\* The dict the name `headers` is bound to on entry.
headers_on_entry(headers_arg, default_headers) ==
    IF headers_arg.given THEN headers_arg.dict ELSE default_headers

\* headers after the two update calls.
build_headers(headers, self, method) ==
    LET h == DictUpdate(headers, self._headers)
    IN IF method \in {"put", "post"} THEN DictUpdate(h, ContentTypeJson) ELSE h

\* auth=(self._username, self._password) if self._auth_method else None
request_auth(self) ==
    IF Truthy(self._auth_method) THEN PyList(<<self._username, self._password>>) ELSE None

\* The request body when none is sent.
NoBody == <<>>

\* data=json.dumps(data) if data else None
request_body(data) == IF Truthy(data) THEN json_dumps(data) ELSE NoBody

\* A classification that leaves the upper boundary 399 out.
is_success_status_below_399(status_code) == 200 <= status_code /\ status_code < 399

\* 200 <= r.status_code <= 399
is_success_status(status_code) == 200 <= status_code /\ status_code <= 399

\* What the dispatcher returns: a (ret_val, resp_json) tuple, or a bare status.
RetTuple(ret_val, resp_json) == [kind |-> "tuple", ret_val |-> ret_val, response |-> resp_json]

RetStatus(ret_val) == [kind |-> "status", ret_val |-> ret_val, response |-> None]

NoReturn == [kind |-> "none", ret_val |-> "", response |-> None]

\* The outcome of one dispatcher call: the exception raised (or NoExc), the value
\* returned, the ActionResult and the default headers dict as the call left them,
\* the HTTP requests attempted and the progress notes saved.
CallOutcome(exc, ret, action_result, default_headers, sent, progress) ==
    [exc |-> exc, ret |-> ret, action_result |-> action_result,
     default_headers |-> default_headers, sent |-> sent, progress |-> progress]

\* A failure branch that sets the status and the message and adds no data.
on_server_error_without_data(action_result, status_code, resp_json) ==
    set_status(action_result, APP_ERROR,
               Msg("ELASTICSEARCH_ERR_FROM_SERVER", status_code,
                   ReplaceBraces(json_dumps(resp_json), FALSE), ""))

\* The failure branch after a successful parse: the body is added to the data,
\* the message carries the status code and the body with its braces removed.
on_server_error(action_result, status_code, resp_json) ==
    set_status(add_data(action_result, resp_json), APP_ERROR,
               Msg("ELASTICSEARCH_ERR_FROM_SERVER", status_code,
                   ReplaceBraces(json_dumps(resp_json), FALSE), ""))

\* The debug data of a response, when the ActionResult takes any.
record_debug_data(action_result, net) ==
    IF action_result.has_debug
    THEN add_debug_data(add_debug_data(add_debug_data(action_result,
             "r_text", net.text), "r_headers", EmptyDict), "r_status_code", net.status_code)
    ELSE action_result

\* The classification of a response whose r.json() gave `parsed`: a parse
\* error, a success, or a failure reported by the server.
classify_parsed(action_result, status_code, text, parsed) ==
    IF parsed.exc # NoExc
    THEN [ret |-> RetTuple(APP_ERROR, None),
          action_result |-> set_status(action_result, APP_ERROR,
              Msg("ELASTICSEARCH_ERR_JSON_PARSE", 0, ReplaceBraces(text, TRUE), parsed.exc))]
    ELSE IF is_success_status(status_code)
    THEN [ret |-> RetTuple(APP_SUCCESS, parsed.val), action_result |-> action_result]
    ELSE [ret |-> RetTuple(APP_ERROR, parsed.val),
          action_result |-> on_server_error(action_result, status_code, parsed.val)]

\* The part of _make_rest_call after the request returned a response.
classify_response(action_result, net) ==
    classify_parsed(record_debug_data(action_result, net), net.status_code, net.text,
                    json_loads(net.text))

\* The outcome of a call whose request was answered and classified as c.
answered(c, default_headers, request, progress) ==
    CallOutcome(NoExc, c.ret, c.action_result, default_headers, <<request>>, progress)

\* The HTTP request of a call.
Request(self, config, endpoint, headers, params, data, request_func) ==
    [verb |-> request_func.func,
     url |-> self._base_url \o endpoint,
     auth |-> request_auth(self),
     data |-> request_body(data),
     headers |-> headers,
     verify |-> config.verify,
     params |-> params]

\* The progress note on authentication.
auth_progress(self) ==
    IF Truthy(self._auth_method) THEN <<"Using authentication">>
    ELSE <<"Not using any authentication, since either the password or username not specified">>

\* _make_rest_call from the getattr on: request_func is what getattr gave,
\* headers the dict built, dflt the default dict as the call leaves it; net is
\* what the network does with the request: raise, or answer with a status code
\* and a body text.
dispatch(self, config, dflt, endpoint, action_result, headers, params, data, method, request_func, net) ==
    IF request_func.exc # NoExc
    THEN CallOutcome(request_func.exc, NoReturn, action_result, dflt, <<>>, <<>>)
    ELSE IF request_func.func = ""
    THEN CallOutcome(NoExc, RetStatus(APP_ERROR),
             set_status(action_result, APP_ERROR,
                 Msg("ELASTICSEARCH_ERR_API_UNSUPPORTED_METHOD", 0, <<>>, method)),
             dflt, <<>>, <<>>)
    ELSE IF net.raises
    THEN CallOutcome(NoExc, RetTuple(APP_ERROR, None),
             set_status(action_result, APP_ERROR,
                 Msg("ELASTICSEARCH_ERR_SERVER_CONNECTION", 0, <<>>, "ConnectionError")),
             dflt,
             <<Request(self, config, endpoint, headers, params, data, request_func)>>,
             auth_progress(self))
    ELSE answered(classify_response(action_result, net), dflt,
                  Request(self, config, endpoint, headers, params, data, request_func),
                  auth_progress(self))

\* The default dict of the headers parameter after a call that built `headers`:
\* the dict built when the caller passed none (it is the default dict, updated
\* in place), unchanged otherwise.
default_after(headers_arg, default_headers, headers) ==
    IF headers_arg.given THEN default_headers ELSE headers

\* The first statements of _make_rest_call with the headers built.
with_headers(self, config, default_headers, endpoint, action_result, headers_arg, headers, params, data, method, net) ==
    dispatch(self, config, default_after(headers_arg, default_headers, headers), endpoint,
             action_result, headers, params, data, method, getattr_requests(method), net)

\* _make_rest_call(endpoint, action_result, headers, params, data, method)
make_rest_call(self, config, default_headers, endpoint, action_result, headers_arg, params, data, method, net) ==
    with_headers(self, config, default_headers, endpoint, action_result, headers_arg,
                 build_headers(headers_on_entry(headers_arg, default_headers), self, method),
                 params, data, method, net)

\* A dispatcher outcome for a handler that made no call.
NoCall(action_result, default_headers) ==
    CallOutcome(NoExc, NoReturn, action_result, default_headers, <<>>, <<>>)

\* The outcome of one handler: the exception that left it (or NoExc), the value it
\* returned, the ActionResult it created and whether it was added to the
\* connector (add_action_result), the connector's own result and the dispatcher
\* call it made.
HandlerOutcome(exc, ret, action_result, added, connector_result, call) ==
    [exc |-> exc, ret |-> ret, action_result |-> action_result, added |-> added,
     connector_result |-> connector_result, call |-> call]

\* The items of a dict value; none for a value that is no dict.
DictItems(obj) == IF obj[1] = "obj" THEN obj[2] ELSE <<>>

\* obj.get(key, default): AttributeError unless obj is a dict.
py_get(obj, key, default) ==
    IF obj[1] # "obj" THEN [exc |-> "AttributeError", val |-> None]
    ELSE IF KeyIndex(obj[2], key) = 0 THEN [exc |-> NoExc, val |-> default]
    ELSE [exc |-> NoExc, val |-> obj[2][KeyIndex(obj[2], key)][2]]

\* obj[key] for a string key: KeyError when a dict lacks it, TypeError when obj
\* is not a dict.
py_getitem(obj, key) ==
    IF obj[1] # "obj" THEN [exc |-> "TypeError", val |-> None]
    ELSE IF KeyIndex(obj[2], key) = 0 THEN [exc |-> "KeyError", val |-> None]
    ELSE [exc |-> NoExc, val |-> obj[2][KeyIndex(obj[2], key)][2]]

\* obj.keys(): AttributeError unless obj is a dict.
py_keys(obj) ==
    IF obj[1] # "obj" THEN [exc |-> "AttributeError", val |-> <<>>]
    ELSE [exc |-> NoExc, val |-> DictKeys(obj[2])]

\* ret_val, response = self._make_rest_call(...): the exception of the call, or
\* TypeError when what it returned is not a pair.
unpack_exc(call) ==
    IF call.exc # NoExc THEN call.exc
    ELSE IF call.ret.kind # "tuple" THEN "TypeError"
    ELSE NoExc

\* _test_connectivity after the call: the failure is copied to the connector's
\* result, the success is set on the connector's result.
test_connectivity_result(call) ==
    IF unpack_exc(call) # NoExc
    THEN HandlerOutcome(unpack_exc(call), "", call.action_result, FALSE, NoConnectorResult, call)
    ELSE IF is_fail(call.ret.ret_val)
    THEN HandlerOutcome(NoExc, APP_ERROR, call.action_result, FALSE,
             [status |-> APP_ERROR,
              message |-> <<call.action_result.message,
                            Msg("ELASTICSEARCH_ERR_CONNECTIVITY_TEST", 0, <<>>, "")>>],
             call)
    ELSE HandlerOutcome(NoExc, APP_SUCCESS, call.action_result, FALSE,
             [status |-> APP_SUCCESS,
              message |-> <<Msg("ELASTICSEARCH_SUCC_CONNECTIVITY_TEST", 0, <<>>, "")>>],
             call)

\* _test_connectivity
test_connectivity(self, config, default_headers, param, net, has_debug) ==
    test_connectivity_result(
        make_rest_call(self, config, default_headers, <<"/_cluster/health">>,
                       ActionResult(<<>>, has_debug), DefaultArg, None, None, "get", net))

\* "/{0}/{1}/_search".format(index, type)
search_endpoint(param) == <<"/", param.index, "/", param.type, "/_search">>

\* Query parameters that pass every routing that is not None, the empty one too.
routing_params_when_not_none(routing) ==
    IF routing # None THEN PyDict(<<<<"routing", routing>>>>) ELSE None

\* params = {'routing': routing} if routing is truthy, else None
routing_params(routing) ==
    IF Truthy(routing) THEN PyDict(<<<<"routing", routing>>>>) ELSE None

\* response.get('hits', {}).get('total', 0), given response.get('hits', {})
total_of(hits) ==
    IF hits.exc # NoExc THEN hits ELSE py_get(hits.val, "total", PyNum(0))

\* update_summary, add_data and set_status of _run_query, given the two values
\* of the summary.
run_query_summary(action_result, response, call, total, timed_out) ==
    IF total.exc # NoExc
    THEN HandlerOutcome(total.exc, "", action_result, TRUE, NoConnectorResult, call)
    ELSE IF timed_out.exc # NoExc
    THEN HandlerOutcome(timed_out.exc, "", action_result, TRUE, NoConnectorResult, call)
    ELSE HandlerOutcome(NoExc, APP_SUCCESS,
             set_status(add_data(update_summary(update_summary(action_result,
                 "ELASTICSEARCH_JSON_TOTAL_HITS", total.val),
                 "ELASTICSEARCH_JSON_TIMED_OUT", timed_out.val), response),
                 APP_SUCCESS, NoMessage),
             TRUE, NoConnectorResult, call)

\* The statements of _run_query after a successful call.
run_query_success(action_result, response, call) ==
    run_query_summary(action_result, response, call,
                      total_of(py_get(response, "hits", PyDict(<<>>))),
                      py_get(response, "timed_out", PyBool(FALSE)))

\* A failure return that sets the status of the ActionResult once more.
failure_return_setting_status(call) ==
    HandlerOutcome(NoExc, call.action_result.status,
                   set_status(call.action_result, call.action_result.status,
                              call.action_result.message),
                   TRUE, NoConnectorResult, call)

\* The failure return of a handler: action_result.get_status().
failure_return(call) ==
    HandlerOutcome(NoExc, call.action_result.status, call.action_result, TRUE,
                   NoConnectorResult, call)

\* The statements of a handler after the call returned: the exception of the
\* unpacking, the failure return, or the success statements.
after_call(call, success) ==
    IF unpack_exc(call) # NoExc
    THEN HandlerOutcome(unpack_exc(call), "", call.action_result, TRUE, NoConnectorResult, call)
    ELSE IF is_fail(call.ret.ret_val) THEN failure_return(call)
    ELSE success

\* _run_query after its call.
run_query_after(call) ==
    after_call(call, run_query_success(call.action_result, call.ret.response, call))

\* _run_query with the ActionResult created and json.loads(query_string) done.
run_query_validated(self, config, default_headers, param, net, action_result, query_json) ==
    IF query_json.exc # NoExc
    THEN HandlerOutcome(NoExc, APP_ERROR,
             set_status(action_result, APP_ERROR,
                        Msg("Unable to load query json. Error: {0}", 0, <<>>, query_json.exc)),
             TRUE, NoConnectorResult, NoCall(action_result, default_headers))
    ELSE run_query_after(
             make_rest_call(self, config, default_headers, search_endpoint(param),
                            action_result, DefaultArg, routing_params(param.routing),
                            query_json.val, "get", net))

\* _run_query
run_query(self, config, default_headers, param, net, has_debug) ==
    run_query_validated(self, config, default_headers, param, net,
                        ActionResult(<<param>>, has_debug), json_loads(param.query))

\* response[index]['mappings'].keys(), given response[index]['mappings']
keys_of(mappings) ==
    IF mappings.exc # NoExc THEN [exc |-> mappings.exc, val |-> <<>>]
    ELSE py_keys(mappings.val)

\* {'index': index, 'types': types}
index_entry(index, types) ==
    PyDict(<<<<"index", PyStr(index)>>,
             <<"types", PyList([k \in 1..Len(types) |-> PyStr(types[k])])>>>>)

RECURSIVE add_indices(_, _, _)
\* One turn of the loop of _get_config, given the types of item i.
add_index(action_result, items, i, types) ==
    IF types.exc # NoExc THEN [exc |-> types.exc, action_result |-> action_result]
    ELSE add_indices(add_data(action_result, index_entry(items[i][1], types.val)), items, i + 1)

\* The loop of _get_config over the items of the response from item i on: one
\* data entry per index, until an entry raises.
add_indices(action_result, items, i) ==
    IF i > Len(items) THEN [exc |-> NoExc, action_result |-> action_result]
    ELSE add_index(action_result, items, i, keys_of(py_getitem(items[i][2], "mappings")))

\* _get_config after response.keys() and the loop.
get_config_summary(action_result, call, indices, looped) ==
    IF indices.exc # NoExc
    THEN HandlerOutcome(indices.exc, "", action_result, TRUE, NoConnectorResult, call)
    ELSE IF looped.exc # NoExc
    THEN HandlerOutcome(looped.exc, "", looped.action_result, TRUE, NoConnectorResult, call)
    ELSE HandlerOutcome(NoExc, APP_SUCCESS,
             set_status(update_summary(looped.action_result, "total_indices",
                            PyNum(Len(indices.val))),
                        APP_SUCCESS, NoMessage),
             TRUE, NoConnectorResult, call)

\* The statements of _get_config after a successful call.
get_config_success(action_result, response, call) ==
    get_config_summary(action_result, call, py_keys(response),
                       add_indices(action_result, DictItems(response), 1))

\* _get_config after its call.
get_config_after(call) ==
    after_call(call, get_config_success(call.action_result, call.ret.response, call))

\* _get_config
get_config(self, config, default_headers, param, net, has_debug) ==
    get_config_after(
        make_rest_call(self, config, default_headers, <<"/_mapping">>,
                       ActionResult(<<param>>, has_debug), DefaultArg, None, None, "get", net))

\* handle_action: the handler of the action identifier; APP_SUCCESS when no
\* identifier matches.
handle_action(self, config, default_headers, action, param, net, has_debug) ==
    IF action = ACTION_ID_RUN_QUERY
    THEN run_query(self, config, default_headers, param, net, has_debug)
    ELSE IF action = ACTION_ID_GET_CONFIG
    THEN get_config(self, config, default_headers, param, net, has_debug)
    ELSE IF action = ACTION_ID_TEST_ASSET_CONNECTIVITY
    THEN test_connectivity(self, config, default_headers, param, net, has_debug)
    ELSE HandlerOutcome(NoExc, APP_SUCCESS, NoActionResult, FALSE, NoConnectorResult,
                        NoCall(NoActionResult, default_headers))

\* ------------------------------------------------------------------------
\* Inputs
\* ------------------------------------------------------------------------

UrlSlash == <<"h", "t", "t", "p", ":", "/", "/", "e", "s", ":", "9", "2", "0", "0", "/">>

UrlPlain == <<"h", "t", "t", "p", "s", ":", "/", "/", "e", "s">>

AssetConfig(url, username, password) ==
    [url |-> url, username |-> username, password |-> password, verify |-> TRUE]

\* The asset configurations: both credentials, neither, only one of them, and an
\* empty username.
Configs ==
    << AssetConfig(UrlSlash, PyStr("admin"), PyStr("secret")),
       AssetConfig(UrlPlain, None, None),
       AssetConfig(UrlSlash, PyStr("admin"), None),
       AssetConfig(UrlPlain, None, PyStr("secret")),
       AssetConfig(UrlPlain, PyStr(""), PyStr("secret")) >>

Bad(w) == <<"bad", w>>

\* The query strings of run_query: the six falsy JSON documents, a search
\* written with its own spacing, and a text that is not JSON.
Queries ==
    << <<LBRACE, RBRACE>>,
       <<LBRACK, RBRACK>>,
       <<N(0)>>,
       <<L("false")>>,
       <<L("null")>>,
       <<S("")>>,
       <<LBRACE, WS, S("query"), WS, COLON, LBRACE, S("match_all"), COLON, LBRACE, RBRACE,
         RBRACE, COMMA, S("size"), COLON, N(10), WS, RBRACE>>,
       <<Bad("not"), WS, Bad("json")>> >>

Routings == <<None, PyStr(""), PyStr("shard1")>>

RunQueryParam(query, routing) ==
    [index |-> "logs", type |-> "event", query |-> query, routing |-> routing]

\* The parameter dict of an action that takes no parameters.
NoParam == [index |-> "", type |-> "", query |-> <<>>, routing |-> None]

StatusCodes == <<199, 200, 299, 399, 400>>

\* Response bodies: a search result, an empty object, a non-object, a mapping,
\* an index entry without 'mappings', a mapping whose second entry is no object,
\* 'hits' that is no object, and a text that is not JSON.
Texts ==
    << <<LBRACE, S("hits"), COLON, LBRACE, S("total"), COLON, N(42), RBRACE, COMMA,
         S("timed_out"), COLON, L("false"), RBRACE>>,
       <<LBRACE, RBRACE>>,
       <<LBRACK, RBRACK>>,
       <<LBRACE, S("idx1"), COLON, LBRACE, S("mappings"), COLON, LBRACE,
         S("t1"), COLON, LBRACE, RBRACE, COMMA, S("t2"), COLON, LBRACE, RBRACE,
         RBRACE, RBRACE, RBRACE>>,
       <<LBRACE, S("idx1"), COLON, LBRACE, RBRACE, RBRACE>>,
       <<LBRACE, S("idx1"), COLON, LBRACE, S("mappings"), COLON, LBRACE, RBRACE, RBRACE,
         COMMA, S("idx2"), COLON, N(5), RBRACE>>,
       <<LBRACE, S("hits"), COLON, N(5), RBRACE>>,
       <<Bad("<html>"), LBRACE, S("error"), COLON>> >>

NetRaises == [raises |-> TRUE, status_code |-> 0, text |-> <<>>]

NetResponse(status_code, text) == [raises |-> FALSE, status_code |-> status_code, text |-> text]

NoNet == [raises |-> FALSE, status_code |-> 0, text |-> <<>>]

\* Method names given to the dispatcher; "foo" is no attribute of requests.
Methods == <<"get", "post", "put", "foo">>

\* The headers argument of a direct dispatcher call.
HeaderArgs ==
    << DefaultArg, GivenArg(EmptyDict), GivenArg([Accept |-> "text/plain"]) >>

\* The data argument of a direct dispatcher call.
Datas == << None, PyDict(<<<<"size", PyNum(1)>>>>) >>

Input(action, param, method, headers_arg, data, net) ==
    [action |-> action, param |-> param, method |-> method, headers_arg |-> headers_arg,
     data |-> data, net |-> net]

NoInput == Input("", NoParam, "", DefaultArg, None, NoNet)

\* ------------------------------------------------------------------------
\* State
\* ------------------------------------------------------------------------

VARIABLES
    self,               \* the connector object's members
    config,             \* the asset configuration get_config() returns
    initialized,        \* initialize() has run on the connector
    has_debug,          \* the platform's ActionResult has add_debug_data
    default_headers,    \* the default dict of _make_rest_call's headers parameter
    op,                 \* the call that has returned and is not yet collected
    inp,                \* its inputs
    exc,                \* the exception that left it, or NoExc
    ret,                \* the value handle_action returned
    rest,               \* the value _make_rest_call returned
    action_result,      \* the ActionResult of the call
    added,              \* whether it was added to the connector
    connector_result,   \* the connector's own status and message
    sent,               \* the HTTP requests the call attempted
    progress            \* the progress notes of the dispatcher

base == <<self, config, initialized, has_debug, default_headers>>

observed == <<op, inp, exc, ret, rest, action_result, added, connector_result, sent, progress>>

vars == <<self, config, initialized, has_debug, default_headers, op, inp, exc, ret, rest,
          action_result, added, connector_result, sent, progress>>

Idle ==
    /\ op = "idle"
    /\ inp = NoInput
    /\ exc = NoExc
    /\ ret = ""
    /\ rest = NoReturn
    /\ action_result = NoActionResult
    /\ added = FALSE
    /\ connector_result = NoConnectorResult
    /\ sent = <<>>
    /\ progress = <<>>

Init ==
    /\ self = Connector0
    /\ config = Configs[2]
    /\ initialized = FALSE
    /\ has_debug \in BOOLEAN
    /\ default_headers = EmptyDict
    /\ Idle

\* The platform loads an asset configuration and calls initialize().
Initialize(cfg) ==
    /\ op = "idle"
    /\ self' = initialize(self, cfg)
    /\ config' = cfg
    /\ initialized' = TRUE
    /\ UNCHANGED <<has_debug, default_headers>>
    /\ UNCHANGED observed

\* The platform calls handle_action(param) for an action identifier.
HandleAction(action, param, net) ==
    /\ op = "idle"
    /\ initialized
    /\ \E h \in {handle_action(self, config, default_headers, action, param, net, has_debug)} :
          /\ op' = "handle_action"
          /\ inp' = Input(action, param, "", DefaultArg, None, net)
          /\ exc' = h.exc
          /\ ret' = h.ret
          /\ rest' = h.call.ret
          /\ action_result' = h.action_result
          /\ added' = h.added
          /\ connector_result' = h.connector_result
          /\ sent' = h.call.sent
          /\ progress' = h.call.progress
          /\ default_headers' = h.call.default_headers
    /\ UNCHANGED <<self, config, initialized, has_debug>>

\* A caller invokes the dispatcher with a fresh ActionResult.
MakeRestCall(method, headers_arg, data, net) ==
    /\ op = "idle"
    /\ initialized
    /\ \E c \in {make_rest_call(self, config, default_headers, <<"/_cluster/health">>,
                                  ActionResult(<<>>, has_debug), headers_arg, None, data,
                                  method, net)} :
          /\ op' = "_make_rest_call"
          /\ inp' = Input("", NoParam, method, headers_arg, data, net)
          /\ exc' = c.exc
          /\ ret' = ""
          /\ rest' = c.ret
          /\ action_result' = c.action_result
          /\ added' = FALSE
          /\ connector_result' = NoConnectorResult
          /\ sent' = c.sent
          /\ progress' = c.progress
          /\ default_headers' = c.default_headers
    /\ UNCHANGED <<self, config, initialized, has_debug>>

\* The caller has taken the outcome of the call.
Return ==
    /\ op # "idle"
    /\ op' = "idle"
    /\ inp' = NoInput
    /\ exc' = NoExc
    /\ ret' = ""
    /\ rest' = NoReturn
    /\ action_result' = NoActionResult
    /\ added' = FALSE
    /\ connector_result' = NoConnectorResult
    /\ sent' = <<>>
    /\ progress' = <<>>
    /\ UNCHANGED base

\* The answers with each of the status codes and each of the bodies, after the
\* case that the request raises.
NetsOf(texts) ==
    <<NetRaises>> \o
    [i \in 1..(Len(StatusCodes) * Len(texts)) |->
        NetResponse(StatusCodes[((i - 1) \div Len(texts)) + 1], texts[((i - 1) % Len(texts)) + 1])]

\* What the network does with the request of a handler.
Nets == NetsOf(Texts)

\* The same for a direct call of the dispatcher, which reads of the body only
\* whether it parses: an object, a non-object and a text that is not JSON.
DispatchNets == NetsOf(<<Texts[1], Texts[3], Texts[Len(Texts)]>>)

Next ==
    \/ \E i \in DOMAIN Configs : Initialize(Configs[i])
    \/ \E q \in DOMAIN Queries, r \in DOMAIN Routings, n \in DOMAIN Nets :
           HandleAction(ACTION_ID_RUN_QUERY, RunQueryParam(Queries[q], Routings[r]), Nets[n])
    \/ \E n \in DOMAIN Nets : HandleAction(ACTION_ID_GET_CONFIG, NoParam, Nets[n])
    \/ \E n \in DOMAIN Nets : HandleAction(ACTION_ID_TEST_ASSET_CONNECTIVITY, NoParam, Nets[n])
    \/ HandleAction("unknown", NoParam, NoNet)
    \/ \E m \in DOMAIN Methods, h \in DOMAIN HeaderArgs, d \in DOMAIN Datas,
          n \in DOMAIN DispatchNets :
           MakeRestCall(Methods[m], HeaderArgs[h], Datas[d], DispatchNets[n])
    \/ Return

Spec == Init /\ [][Next]_vars

\* ------------------------------------------------------------------------
\* Properties
\* ------------------------------------------------------------------------

RunQueryReturned == op = "handle_action" /\ inp.action = ACTION_ID_RUN_QUERY

QueryParses == json_loads(inp.param.query).exc = NoExc

\* The call made one request and the network answered it.
Answered == Len(sent) = 1 /\ ~inp.net.raises

TransportError == Len(sent) = 1 /\ inp.net.raises

ParseError == Answered /\ json_loads(inp.net.text).exc # NoExc

ServerError ==
    /\ Answered
    /\ json_loads(inp.net.text).exc = NoExc
    /\ ~(inp.net.status_code \in 200..399)

\* A run_query or get_config whose dispatched call failed.
DispatchedCallFailed ==
    /\ op = "handle_action"
    /\ inp.action \in {ACTION_ID_RUN_QUERY, ACTION_ID_GET_CONFIG}
    /\ (TransportError \/ ParseError \/ ServerError)

\* C1: a dispatcher call with a method name that is not a supported HTTP verb
\* returns a failure with the 'unsupported method' message set on the action
\* result, attempts no network call and does not raise.
C1_UnsupportedMethodFails ==
    (op = "_make_rest_call" /\ inp.method \notin RequestsVerbs) =>
        /\ exc = NoExc
        /\ rest.ret_val = APP_ERROR
        /\ action_result.status = APP_ERROR
        /\ action_result.message.kind = "ELASTICSEARCH_ERR_API_UNSUPPORTED_METHOD"
        /\ sent = <<>>

\* C2: a run_query whose query parses as JSON issues one HTTP call, with method
\* POST, the encoded parsed query as body and Content-Type: application/json.
C2_RunQueryPosts ==
    (RunQueryReturned /\ QueryParses) =>
        /\ Len(sent) = 1
        /\ sent[1].verb = "post"
        /\ sent[1].data = json_dumps(json_loads(inp.param.query).val)
        /\ "Content-Type" \in DOMAIN sent[1].headers
        /\ sent[1].headers["Content-Type"] = "application/json"

\* C3: a run_query whose query parses as JSON sends a body, and the body decodes
\* to the value the query string decodes to.
C3_QueryRoundTrip ==
    (RunQueryReturned /\ QueryParses) =>
        /\ Len(sent) = 1
        /\ sent[1].data # NoBody
        /\ json_loads(sent[1].data) = json_loads(inp.param.query)

\* C4 as stated: on every failure of the dispatched call of run_query and
\* get_config the action result ends as a failure with a message and with no
\* data entry.
C4_NoDataOnFailure ==
    DispatchedCallFailed =>
        /\ action_result.status = APP_ERROR
        /\ action_result.message # NoMessage
        /\ action_result.data = <<>>

\* C4 as amended: on every failure of the dispatched call of run_query and
\* get_config the handler returns the failure, the action result is a failure
\* with the message of the failure; its data is empty after a transport error
\* and after a parse error, and holds the response body, and nothing else,
\* after a failure reported by the server.
C4_DataOnFailure ==
    DispatchedCallFailed =>
        /\ exc = NoExc
        /\ ret = APP_ERROR
        /\ action_result.status = APP_ERROR
        /\ action_result.message.kind =
               (IF TransportError THEN "ELASTICSEARCH_ERR_SERVER_CONNECTION"
                ELSE IF ParseError THEN "ELASTICSEARCH_ERR_JSON_PARSE"
                ELSE "ELASTICSEARCH_ERR_FROM_SERVER")
        /\ action_result.data =
               (IF ServerError THEN <<json_loads(inp.net.text).val>> ELSE <<>>)

\* A run_query answered with status 400 and a JSON body: the body is the one
\* data entry of the failed action result.
C4_Witness ==
    /\ DispatchedCallFailed
    /\ inp.action = ACTION_ID_RUN_QUERY
    /\ ServerError
    /\ inp.net.status_code = 400
    /\ Len(action_result.data) = 1

\* C5: handle_action returns a success or failure status and never raises,
\* whatever the action, the parameters and the response.
C5_NoExceptionEscapes ==
    op = "handle_action" => (exc = NoExc /\ ret \in {APP_SUCCESS, APP_ERROR})

\* C6: for an answered request, a body that parses gives success with the parsed
\* body exactly when the status code is in 200..399, and otherwise a failure
\* whose message carries the status code and the body; a body that does not
\* parse gives a parse-error failure whatever the status code.
C6_StatusClassification ==
    Answered =>
        IF json_loads(inp.net.text).exc = NoExc
        THEN IF inp.net.status_code \in 200..399
             THEN rest = RetTuple(APP_SUCCESS, json_loads(inp.net.text).val)
             ELSE /\ rest = RetTuple(APP_ERROR, json_loads(inp.net.text).val)
                  /\ action_result.status = APP_ERROR
                  /\ action_result.message.kind = "ELASTICSEARCH_ERR_FROM_SERVER"
                  /\ action_result.message.status = inp.net.status_code
                  /\ action_result.message.detail =
                         ReplaceBraces(json_dumps(json_loads(inp.net.text).val), FALSE)
        ELSE /\ rest = RetTuple(APP_ERROR, None)
             /\ action_result.status = APP_ERROR
             /\ action_result.message.kind = "ELASTICSEARCH_ERR_JSON_PARSE"

\* A direct call answered with status 399 and a JSON body returned success.
C6_Witness ==
    /\ op = "_make_rest_call"
    /\ Answered
    /\ inp.net.status_code = 399
    /\ rest.ret_val = APP_SUCCESS
    /\ action_result.nset = 0

\* C7: a request carries credentials exactly when the configuration in effect
\* has both a username and a password.
C7_AuthFollowsConfig ==
    Len(sent) = 1 =>
        (sent[1].auth # None <=> (Truthy(config.username) /\ Truthy(config.password)))

\* C8: a run_query whose query does not parse fails with the message embedding
\* the parse error and makes no network call; otherwise it makes exactly one, to
\* /{index}/{type}/_search, with the routing parameter exactly when routing is
\* supplied and not empty.
C8_ValidationBeforeIO ==
    RunQueryReturned =>
        IF ~QueryParses
        THEN /\ exc = NoExc
             /\ ret = APP_ERROR
             /\ action_result.status = APP_ERROR
             /\ action_result.message.kind = "Unable to load query json. Error: {0}"
             /\ action_result.message.cause = json_loads(inp.param.query).exc
             /\ sent = <<>>
        ELSE /\ Len(sent) = 1
             /\ sent[1].url = self._base_url \o <<"/", inp.param.index, "/", inp.param.type, "/_search">>
             /\ sent[1].params =
                    (IF inp.param.routing # None /\ inp.param.routing # PyStr("")
                     THEN PyDict(<<<<"routing", inp.param.routing>>>>)
                     ELSE None)

\* A run_query with a query that is not JSON failed without a network call.
C8_Witness ==
    /\ RunQueryReturned
    /\ ~QueryParses
    /\ ret = APP_ERROR
    /\ sent = <<>>

\* The headers a call is to send by its own method and caller headers alone.
OwnHeaders(method, headers_arg) ==
    DictUpdate(DictUpdate(IF headers_arg.given THEN headers_arg.dict ELSE EmptyDict, AcceptJson),
               IF method \in {"post", "put"} THEN ContentTypeJson ELSE EmptyDict)

\* C9: the headers of a request are those of its own call: the caller's, Accept,
\* and Content-Type exactly when the method is POST or PUT.
C9_HeadersOfOwnCall ==
    (op = "_make_rest_call" /\ Len(sent) = 1) =>
        sent[1].headers = OwnHeaders(inp.method, inp.headers_arg)

ThreeOperations ==
    {ACTION_ID_RUN_QUERY, ACTION_ID_GET_CONFIG, ACTION_ID_TEST_ASSET_CONNECTIVITY}

\* C10 as stated: each of the three operations sets the status of its
\* ActionResult exactly once, on every outcome.
C10_StatusSetExactlyOnce ==
    (op = "handle_action" /\ inp.action \in ThreeOperations) => action_result.nset = 1

\* C10 as amended: no operation sets the status of its ActionResult twice;
\* run_query and get_config set it exactly once when they return and not at
\* all when they raise; the connectivity check sets it exactly once when the
\* call fails and not at all when it succeeds, the success being set on the
\* connector's own result.
C10_StatusSetAtMostOnce ==
    (op = "handle_action" /\ inp.action \in ThreeOperations) =>
        /\ action_result.nset <= 1
        /\ (inp.action # ACTION_ID_TEST_ASSET_CONNECTIVITY =>
                (action_result.nset = 1 <=> exc = NoExc))
        /\ (inp.action = ACTION_ID_TEST_ASSET_CONNECTIVITY =>
                /\ exc = NoExc
                /\ (action_result.nset = 1 <=> ret = APP_ERROR)
                /\ (action_result.nset = 0 <=> ret = APP_SUCCESS)
                /\ connector_result.status = ret)

\* A connectivity check that succeeded: the status of its ActionResult was
\* never set.
C10_Witness ==
    /\ op = "handle_action"
    /\ inp.action = ACTION_ID_TEST_ASSET_CONNECTIVITY
    /\ ret = APP_SUCCESS
    /\ connector_result.status = APP_SUCCESS
    /\ action_result.nset = 0
    /\ action_result.status = "unset"

=============================================================================
